---- MODULE Spec2Model ----
(***************************************************************************)
(* The DuroTrace k6 load-test scripts: Module 1 (serial codes and master   *)
(* data), the paginated script, Module 2 (SmartPrint) and Module 3 (smart  *)
(* scan capture).  Each script is a default function that the k6 harness   *)
(* invokes repeatedly for every virtual user (VU); an invocation builds    *)
(* its payloads, issues its HTTP requests one after the other and          *)
(* evaluates static predicates on every response.                          *)
(*                                                                         *)
(* Strings whose content matters (the generated identifiers) are sequences *)
(* of one-character strings; a request body is the object handed to        *)
(* JSON.stringify; a response body is a string of which only the length    *)
(* is observed by the scripts.                                             *)
(***************************************************************************)
EXTENDS Integers, Sequences, FiniteSets, TLC

\* ------------------------------------------------------------- bounds
\* virtual users of a run are 1..MaxVU
MaxVU == 2
\* the harness ends the run after MaxRestarts re-invocations of the default
\* function, counted over all virtual users
MaxRestarts == 1
\* response bodies have 0..MaxBodyLen characters
MaxBodyLen == 2
\* response statuses checked one by one range over StatusLo..StatusHi
StatusLo == 100
StatusHi == 599
\* payload generators are applied to VUs 1..PMaxVU and iterations 0..PMaxIter
PMaxVU == 11
PMaxIter == 11
\* res.timings.duration is 0..MaxDuration milliseconds
MaxDuration == 1
\* Math.random() is drawn from {k / RandDenom : k \in 0..RandDenom-1}
RandDenom == 1000

\* -------------------------------------------------- program constants
BASE_URL == "https://dev-durotrace-api.azurewebsites.net"
\* __VU * 10000 + __ITER
VuMultiplier == 10000
\* Math.floor(Math.random() * 100) + 1
PageCount == 100
PageSize == 50
\* sleep(1)
SleepSeconds == 1

\* ------------------------------------------------------------ strings
Digits == <<"0", "1", "2", "3", "4", "5", "6", "7", "8", "9">>

\* `${n}` for a non-negative integer n: its decimal digits
RECURSIVE ToDecimal(_)
ToDecimal(n) ==
    IF n < 10 THEN <<Digits[n + 1]>>
    ELSE ToDecimal(n \div 10) \o <<Digits[(n % 10) + 1]>>

OrderNumberBase == <<"1", "2", "3", "4", "5", "6", "7", "8", "9">>

SerialNumberBase ==
    <<"P", "0", "0", "3", "0", "2", "H", "4", "Q", "h", "G", "6", "M", "1",
      "b", "0", "0", "E", "-">>

\* ----------------------------------------------------------- payloads
\* const numericPart = (__VU * 10000 + __ITER)
NumericPart(vu, it) == vu * VuMultiplier + it

\* const uniqueOrderNumber = `123456789${numericPart}`
UniqueOrderNumber(vu, it) == OrderNumberBase \o ToDecimal(NumericPart(vu, it))

OrderItem(orderNumber) ==
    [itemnumber |-> "10",
     materialcode |-> "CB88SHFLIBLENDGJ03651C001025250GSMG",
     materialdescription |-> "CB88SHFLI BLEND GJ03651-C001025 250GSM",
     orderedquantity |-> 1000,
     confirmedgrqty |-> 1000,
     storagelocation |-> "RM03",
     uom |-> "M",
     ordernumber |-> orderNumber,
     lineorderstatus |-> "C",
     content |-> "", category |-> "", model |-> "", productcode |-> "",
     dimension |-> "", netqty |-> 1, monthyear |-> "", mrp |-> 0,
     eannumber |-> "", mfgplantadd |-> "", customercare |-> "",
     l1code |-> "99", l1text |-> "To be Created",
     l2code |-> "9999", l2text |-> "To be Created",
     l3code |-> "999999", l3text |-> "To be Created",
     l4code |-> "99999999", l4text |-> "To be Created",
     l5code |-> "999999999999", l5text |-> "To be Created",
     l6code |-> "99999999999999999", l6text |-> "To be Created",
     remarks |-> "", attr1 |-> "0.000 ", attr2 |-> "0.000 ",
     attr3 |-> "0.000 ", attr4 |-> "", attr5 |-> "", type |-> 0]

\* a slip that would give the item the bare numeric part
GenerateOrderPayloadItemBare(vu, it) ==
    [order |-> <<
        [transactiontype |-> "PURCHASE_ORDER",
         ordernumber |-> UniqueOrderNumber(vu, it),
         orderdate |-> "18/08/2025",
         ordertime |-> "12:16:22",
         plantcode |-> "P003",
         prodorderstatus |-> "",
         storagelocation |-> "RM03",
         vendorCode |-> "200128    ",
         vendorName |-> "GLOBAL TEXTILES ALLIANCE PVT LTD",
         items |-> << OrderItem(ToDecimal(NumericPart(vu, it))) >>] >>]

\* generateOrderPayload(), with __VU = vu and __ITER = it
GenerateOrderPayload(vu, it) ==
    [order |-> <<
        [transactiontype |-> "PURCHASE_ORDER",
         ordernumber |-> UniqueOrderNumber(vu, it),
         orderdate |-> "18/08/2025",
         ordertime |-> "12:16:22",
         plantcode |-> "P003",
         prodorderstatus |-> "",
         storagelocation |-> "RM03",
         vendorCode |-> "200128    ",
         vendorName |-> "GLOBAL TEXTILES ALLIANCE PVT LTD",
         items |-> << OrderItem(UniqueOrderNumber(vu, it)) >>] >>]

\* a slip that would drop the separator between VU and ITER
GenerateMrpReprintPayloadNoDash(vu, it) ==
    [po_details_code |-> "a6dd5d05-318f-4bca-833d-48d01aea97a3",
     serial_number |-> SerialNumberBase \o ToDecimal(vu) \o ToDecimal(it)]

\* generateMrpReprintPayload(), with __VU = vu and __ITER = it
GenerateMrpReprintPayload(vu, it) ==
    [po_details_code |-> "a6dd5d05-318f-4bca-833d-48d01aea97a3",
     serial_number |->
        SerialNumberBase \o ToDecimal(vu) \o <<"-">> \o ToDecimal(it)]

\* the payload literal of POST /api/serialcode/generate
SerialCodePayload ==
    [product_category_code |-> 1,
     plant_code |-> "P001",
     procurement_type_code |-> 1,
     no_of_code |-> 2,
     user_code |-> "3fa85f64-5717-4562-b3fc-2c963f66afa6"]

\* the payload literal of POST /api/SmartPrint
SmartPrintPayload ==
    [vendor_type |-> "Vendor",
     vendor_code |-> "3fa85f64-5717-4562-b3fc-2c963f66afa4",
     file_format |-> "PDF",
     delivery_method |-> "FileDownload",
     no_of_code |-> 3,
     plant_code |-> "P001",
     plant_name |-> "PDN Factory",
     user_code |-> "3fa85f64-5717-4562-b3fc-2c963f66afa6"]

\* const page = Math.floor(Math.random() * 100) + 1, Math.random() = k / RandDenom
PageOf(k) == ((k * PageCount) \div RandDenom) + 1

\* ------------------------------------------------------------ scripts
Scripts == {"Module1", "Paginated", "Module2", "Module3"}

\* options.stages of Module 1: duration in seconds, target VUs
Module1Stages ==
    << [duration |-> 60, target |-> 10],
       [duration |-> 300, target |-> 10],
       [duration |-> 10, target |-> 0] >>

\* options.stages of Module 2
Module2Stages ==
    << [duration |-> 60, target |-> 10],
       [duration |-> 300, target |-> 10],
       [duration |-> 10, target |-> 0] >>

\* options.stages of Module 3
Module3Stages ==
    << [duration |-> 60, target |-> 20],
       [duration |-> 60, target |-> 20],
       [duration |-> 30, target |-> 0] >>

\* the paginated script sets no stages (--vus and --duration are given on
\* the command line)
Stages(s) ==
    CASE s = "Module1" -> Module1Stages
      [] s = "Module2" -> Module2Stages
      [] s = "Module3" -> Module3Stages
      [] OTHER -> << >>

\* The requests of one invocation of the default function, in program order.
\* json: the Content-Type: application/json header is sent; tag: tags.name;
\* checks: the predicates handed to check(), in order.
Module1Steps ==
    << [method |-> "GET",
        path |-> "/api/serialcode/get-serial-code-details-data",
        json |-> TRUE, tag |-> "",
        checks |-> << [label |-> "GET details status is 200", pred |-> "status200"],
                      [label |-> "GET details has non-empty body", pred |-> "bodyNonEmpty"] >>],
       [method |-> "POST",
        path |-> "/api/serialcode/generate",
        json |-> TRUE, tag |-> "",
        checks |-> << [label |-> "POST generate status is 201", pred |-> "status201"],
                      [label |-> "POST generate has non-empty body", pred |-> "bodyNonEmpty"] >>],
       [method |-> "GET",
        path |-> "/api/serialcode/get-serial-code-headers-data",
        json |-> TRUE, tag |-> "",
        checks |-> << [label |-> "GET headers status is 200", pred |-> "status200"],
                      [label |-> "GET headers has non-empty body", pred |-> "bodyNonEmpty"] >>],
       [method |-> "GET",
        path |-> "/api/master/get-plants-data",
        json |-> TRUE, tag |-> "",
        checks |-> << [label |-> "GET plants data status is 200", pred |-> "status200"],
                      [label |-> "GET plants data has non-empty body", pred |-> "bodyNonEmpty"] >>],
       [method |-> "GET",
        path |-> "/api/master/get-product-categories-data",
        json |-> TRUE, tag |-> "",
        checks |-> << [label |-> "GET product categories status is 200", pred |-> "status200"],
                      [label |-> "GET product categories has non-empty body", pred |-> "bodyNonEmpty"] >>],
       [method |-> "GET",
        path |-> "/api/master/get-procurement-types-data",
        json |-> TRUE, tag |-> "",
        checks |-> << [label |-> "GET procurement types status is 200", pred |-> "status200"],
                      [label |-> "GET procurement types has non-empty body", pred |-> "bodyNonEmpty"] >>] >>

PaginatedSteps ==
    << [method |-> "GET",
        path |-> "/api/serialcode/get-serial-codes-data",
        json |-> TRUE, tag |-> "",
        checks |-> << [label |-> "Paginated GET status is 200", pred |-> "status200"],
                      [label |-> "Paginated GET has non-empty body", pred |-> "bodyNonEmpty"] >>],
       [method |-> "GET",
        path |-> "/api/serialcode/get-serial-code-headers-data",
        json |-> TRUE, tag |-> "",
        checks |-> << [label |-> "GET headers status is 200", pred |-> "status200"],
                      [label |-> "GET headers has non-empty body", pred |-> "bodyNonEmpty"] >>],
       [method |-> "POST",
        path |-> "/api/serialcode/generate",
        json |-> TRUE, tag |-> "",
        checks |-> << [label |-> "POST generate status is 201", pred |-> "status201"],
                      [label |-> "POST generate has non-empty body", pred |-> "bodyNonEmpty"] >>] >>

Module2Steps ==
    << [method |-> "POST",
        path |-> "/api/SmartPrint",
        json |-> TRUE, tag |-> "",
        checks |-> << [label |-> "POST SmartPrint status is 201", pred |-> "status201"],
                      [label |-> "POST SmartPrint has non-empty body", pred |-> "bodyNonEmpty"] >>],
       [method |-> "GET",
        path |-> "/api/smartprint/get-smart-print-headers-data",
        json |-> TRUE, tag |-> "",
        checks |-> << [label |-> "GET smart print headers status is 200", pred |-> "status200"],
                      [label |-> "GET smart print headers has non-empty body", pred |-> "bodyNonEmpty"] >>],
       [method |-> "GET",
        path |-> "/api/smartprint/get-smart-print-details-data",
        json |-> TRUE, tag |-> "",
        checks |-> << [label |-> "GET smart print details status is 200", pred |-> "status200"],
                      [label |-> "GET smart print details has non-empty body", pred |-> "bodyNonEmpty"] >>] >>

Module3Steps ==
    << [method |-> "POST",
        path |-> "/api/smartscancapture/generate",
        json |-> TRUE, tag |-> "Smart Scan Generate POST",
        checks |-> << [label |-> "Generate: status is 200/201", pred |-> "status200or201"] >>],
       [method |-> "POST",
        path |-> "/api/smartscancapture/mrp-reprint",
        json |-> TRUE, tag |-> "Smart Scan MRP Reprint POST",
        checks |-> << [label |-> "MRP Reprint: status is 200/201", pred |-> "status200or201"] >>],
       [method |-> "GET",
        path |-> "/api/smartscancapture/get-po-headers-data",
        json |-> FALSE, tag |-> "Smart Scan GET PO Headers",
        checks |-> << [label |-> "GET PO Headers status is 200", pred |-> "status200"],
                      [label |-> "GET PO Headers has non-empty body", pred |-> "bodyNonEmpty"] >>],
       [method |-> "GET",
        path |-> "/api/smartscancapture/get-po-details-data",
        json |-> FALSE, tag |-> "Smart Scan GET PO Details",
        checks |-> << [label |-> "GET PO Details status is 200", pred |-> "status200"],
                      [label |-> "GET PO Details has non-empty body", pred |-> "bodyNonEmpty"] >>] >>

Steps(s) ==
    CASE s = "Module1" -> Module1Steps
      [] s = "Paginated" -> PaginatedSteps
      [] s = "Module2" -> Module2Steps
      [] s = "Module3" -> Module3Steps

\* the script ends its default function with sleep(1)
HasSleep(s) == s \in {"Module1", "Module2", "Module3"}

\* the values the default function binds before its first request:
\* Module 3 builds orderPayload and mrpReprintPayload, the others nothing
BuildLocals(s, vu, it) ==
    IF s = "Module3"
    THEN << GenerateOrderPayload(vu, it), GenerateMrpReprintPayload(vu, it) >>
    ELSE << >>

\* the body argument of the idx-th request (no element: a GET)
BodyOf(s, idx, loc) ==
    CASE s = "Module3" /\ idx \in {1, 2} -> << loc[idx] >>
      [] s = "Module1" /\ idx = 2 -> << SerialCodePayload >>
      [] s = "Paginated" /\ idx = 3 -> << SerialCodePayload >>
      [] s = "Module2" /\ idx = 1 -> << SmartPrintPayload >>
      [] OTHER -> << >>

\* the query string of the idx-th request, k / RandDenom being the value
\* Math.random() returns
QueryOf(s, idx, k) ==
    IF s = "Paginated" /\ idx = 1
    THEN << [page |-> PageOf(k), pageSize |-> PageSize] >>
    ELSE << >>

\* the idx-th http.get / http.post call of script s
Request(s, idx, loc, k) ==
    [method |-> Steps(s)[idx].method,
     base |-> BASE_URL,
     path |-> Steps(s)[idx].path,
     query |-> QueryOf(s, idx, k),
     body |-> BodyOf(s, idx, loc),
     json |-> Steps(s)[idx].json,
     tag |-> Steps(s)[idx].tag]

\* ------------------------------------------------------------- checks
\* a bug that would accept an empty body
PredHoldsAnyBody(pred, r) ==
    CASE pred = "status200" -> r.status = 200
      [] pred = "status201" -> r.status = 201
      [] pred = "status200or201" -> r.status = 200 \/ r.status = 201
      [] pred = "bodyNonEmpty" -> Len(r.body) >= 0

\* a bug that would accept every 2xx status
PredHoldsAny2xx(pred, r) ==
    CASE pred = "status200" -> r.status \div 100 = 2
      [] pred = "status201" -> r.status \div 100 = 2
      [] pred = "status200or201" -> r.status \div 100 = 2
      [] pred = "bodyNonEmpty" -> Len(r.body) > 0

\* the predicates (r) => ... of the check() calls
PredHolds(pred, r) ==
    CASE pred = "status200" -> r.status = 200
      [] pred = "status201" -> r.status = 201
      [] pred = "status200or201" -> r.status = 200 \/ r.status = 201
      [] pred = "bodyNonEmpty" -> Len(r.body) > 0

\* check(res, {...}): one outcome per predicate, in order
Check(r, checks) == [i \in 1..Len(checks) |-> PredHolds(checks[i].pred, r)]

\* a bug that would miss status 400 itself
DebugLogAbove400(s, idx, r) ==
    IF s = "Module3" /\ idx = 1 /\ r.status > 400
    THEN << [status |-> r.status, body |-> r.body] >>
    ELSE << >>

\* if (resGenerate.status >= 400) console.log(...): the lines printed
DebugLog(s, idx, r) ==
    IF s = "Module3" /\ idx = 1 /\ r.status >= 400
    THEN << [status |-> r.status, body |-> r.body] >>
    ELSE << >>

\* the Trend metrics of the paginated script
TrendNames ==
    {"get_paginated_data_duration", "get_serial_code_headers_duration",
     "post_generate_duration"}

\* the Trend the paginated script feeds after its idx-th request:
\* getPaginatedDataTrend, getHeadersTrend, postGenerateTrend
TrendOf(idx) ==
    CASE idx = 1 -> "get_paginated_data_duration"
      [] idx = 2 -> "get_serial_code_headers_duration"
      [] idx = 3 -> "post_generate_duration"

\* a bug that would time only the responses with the expected status
TrendSamplesWhenStatusOk(s, idx, r) ==
    IF s = "Paginated" /\ PredHolds(Steps(s)[idx].checks[1].pred, r)
    THEN << [metric |-> TrendOf(idx), value |-> r.duration] >>
    ELSE << >>

\* <trend>.add(res.timings.duration): the samples added for the response r
\* of the idx-th request
TrendSamples(s, idx, r) ==
    IF s = "Paginated"
    THEN << [metric |-> TrendOf(idx), value |-> r.duration] >>
    ELSE << >>

\* the Trend metrics tr after the samples are added
AddSamples(tr, samples) ==
    [m \in DOMAIN tr |->
        LET mine == SelectSeq(samples, LAMBDA e : e.metric = m)
        IN  tr[m] \o [i \in 1..Len(mine) |-> mine[i].value]]

\* a bug that would repeat a request whose check failed
ContinueRetry(idx, outcomes) ==
    IF \A i \in 1..Len(outcomes) : outcomes[i] THEN idx + 1 ELSE idx

\* the statement after the idx-th check(): the next request, whatever the
\* outcomes were
Continue(idx, outcomes) == idx + 1

\* what the script does with the response r of its idx-th request
HandleResponse(s, idx, r) ==
    LET outcomes == Check(r, Steps(s)[idx].checks)
    IN  [trend |-> TrendSamples(s, idx, r),
         log |-> DebugLog(s, idx, r),
         outcomes |-> outcomes,
         next |-> Continue(idx, outcomes)]

\* -------------------------------------------------------------- state
VARIABLES
    \* a run of one script by the harness
    script,     \* the script the harness runs
    pc,         \* pc[vu]: the index of the request the VU executes next
    iter,       \* iter[vu]: the VU's iteration counter
    locals,     \* locals[vu]: the payloads bound at the start of the invocation
    inflight,   \* the requests sent and not yet answered
    trace,      \* trace[vu]: what the current invocation has done so far
    recorded,   \* recorded[vu]: predicate outcomes the current invocation gave check()
    console,    \* console[vu]: lines the current invocation printed
    trend,      \* trend[m]: the samples added to the Trend metric m in the run
    \* one response handled on its own
    hStep, hRes, hOut,
    \* the payload generators applied to two (VU, ITER) pairs
    gA, gB, gOut,
    \* the ramp profile of options.stages
    rScript, rStage, rElapsed, rVUs

runVars == <<script, pc, iter, locals, inflight, trace, recorded, console, trend>>
handlerVars == <<hStep, hRes, hOut>>
payloadVars == <<gA, gB, gOut>>
rampVars == <<rScript, rStage, rElapsed, rVUs>>
vars == <<runVars, handlerVars, payloadVars, rampVars>>

VUs == 1..MaxVU

\* response bodies: strings of 0..MaxBodyLen characters
Bodies == {[i \in 1..n |-> "x"] : n \in 0..MaxBodyLen}

\* the responses a run is answered with
RunStatuses == {200, 201, 400}
RunBodies == {[i \in 1..n |-> "x"] : n \in {0, MaxBodyLen}}
RunDurations == {MaxDuration}
RunResponses == [status : RunStatuses, body : RunBodies, duration : RunDurations]

\* the values of Math.random() a run draws: the least and the greatest
RunDraws == {0, RandDenom - 1}

Draws(s, idx) == IF s = "Paginated" /\ idx = 1 THEN RunDraws ELSE {0}

RECURSIVE SumTo(_, _)
SumTo(f, n) == IF n = 0 THEN 0 ELSE f[n] + SumTo(f, n - 1)

\* the re-invocations of the default function so far, over all VUs
Restarts == SumTo(iter, MaxVU)

\* a bug that would number an iteration by its place among the iterations of
\* the whole run (VU 1 starts the run's iteration 0, VU 2 its iteration 1, ...)
ITERInTest(vu) == IF iter[vu] = 0 THEN vu - 1 ELSE MaxVU - 1 + Restarts

\* __ITER as the invocation of virtual user vu reads it
ITER(vu) == iter[vu]

\* a bug that would not wait for the response
AwaitingResponseNever(vu) == FALSE

\* http.get / http.post return only with the response: the VU has a request
\* in flight
AwaitingResponse(vu) == \E m \in inflight : m.vu = vu

\* the pc at which the default function returns
EndPc(s) == Len(Steps(s)) + (IF HasSleep(s) THEN 2 ELSE 1)

\* an entry of trace: a request sent (with the request), a check() call on
\* the response of the request to method and path (with its number of
\* predicates), or the sleep (with its seconds)
Event(op, method, path, req, n) ==
    [op |-> op, method |-> method, path |-> path, req |-> req, n |-> n]

IdleRun ==
    /\ script = << >> /\ pc = << >> /\ iter = << >> /\ locals = << >>
    /\ inflight = << >> /\ trace = << >> /\ recorded = << >> /\ console = << >>
    /\ trend = << >>

IdleHandler == hStep = << >> /\ hRes = << >> /\ hOut = << >>

IdlePayload == gA = << >> /\ gB = << >> /\ gOut = << >>

IdleRamp == rScript = << >> /\ rStage = << >> /\ rElapsed = << >> /\ rVUs = << >>

\* ---------------------------------------------------------------- run
\* the harness starts every VU on iteration 0 of the script
Init ==
    /\ script \in Scripts
    /\ pc = [vu \in VUs |-> 1]
    /\ iter = [vu \in VUs |-> 0]
    /\ locals = [vu \in VUs |-> BuildLocals(script, vu, ITER(vu))]
    /\ inflight = {}
    /\ trace = [vu \in VUs |-> << >>]
    /\ recorded = [vu \in VUs |-> 0]
    /\ console = [vu \in VUs |-> << >>]
    /\ trend = [m \in TrendNames |-> << >>]
    /\ IdleHandler /\ IdlePayload /\ IdleRamp

\* const res = http.get(...) / http.post(...): the request leaves, with
\* Math.random() drawn from draws
IssueFrom(vu, draws) ==
    /\ pc[vu] \in 1..Len(Steps(script))
    /\ ~AwaitingResponse(vu)
    /\ \E k \in draws :
         LET req == Request(script, pc[vu], locals[vu], k)
         IN  /\ inflight' = inflight \cup
                   {[vu |-> vu, iter |-> iter[vu], idx |-> pc[vu], req |-> req]}
             /\ trace' = [trace EXCEPT ![vu] =
                   Append(@, Event("request", req.method, req.path, <<req>>, 0))]
    /\ UNCHANGED <<script, pc, iter, locals, recorded, console, trend>>
    /\ UNCHANGED <<handlerVars, payloadVars, rampVars>>

Issue(vu) == IssueFrom(vu, Draws(script, pc[vu]))

\* the response r to the request m arrives, the call returns, and the script
\* times, logs and checks it
RespondWith(vu, m, r) ==
    LET h == HandleResponse(script, m.idx, r)
    IN  /\ inflight' = inflight \ {m}
        /\ trend' = AddSamples(trend, h.trend)
        /\ console' = [console EXCEPT ![vu] = @ \o h.log]
        /\ recorded' = [recorded EXCEPT ![vu] = @ + Len(h.outcomes)]
        /\ trace' = [trace EXCEPT ![vu] =
              Append(@, Event("check", m.req.method, m.req.path, << >>,
                              Len(h.outcomes)))]
        /\ pc' = [pc EXCEPT ![vu] = h.next]
        /\ UNCHANGED <<script, iter, locals>>

Respond(vu) ==
    \E m \in inflight :
      /\ m.vu = vu
      /\ \E r \in RunResponses : RespondWith(vu, m, r)
      /\ UNCHANGED <<handlerVars, payloadVars, rampVars>>

\* sleep(1), the last statement of Modules 1, 2 and 3
Sleep(vu) ==
    /\ HasSleep(script)
    /\ pc[vu] = Len(Steps(script)) + 1
    /\ ~AwaitingResponse(vu)
    /\ trace' = [trace EXCEPT ![vu] = Append(@, Event("sleep", "", "", << >>, SleepSeconds))]
    /\ pc' = [pc EXCEPT ![vu] = @ + 1]
    /\ UNCHANGED <<script, iter, locals, inflight, recorded, console, trend>>
    /\ UNCHANGED <<handlerVars, payloadVars, rampVars>>

\* the default function has returned and the harness invokes it again
NextIteration(vu) ==
    /\ pc[vu] = EndPc(script)
    /\ ~AwaitingResponse(vu)
    /\ Restarts < MaxRestarts
    /\ iter' = [iter EXCEPT ![vu] = @ + 1]
    /\ locals' = [locals EXCEPT ![vu] = BuildLocals(script, vu, ITER(vu)')]
    /\ pc' = [pc EXCEPT ![vu] = 1]
    /\ trace' = [trace EXCEPT ![vu] = << >>]
    /\ recorded' = [recorded EXCEPT ![vu] = 0]
    /\ console' = [console EXCEPT ![vu] = << >>]
    /\ UNCHANGED <<script, inflight, trend>>
    /\ UNCHANGED <<handlerVars, payloadVars, rampVars>>

Next ==
    \E vu \in VUs :
        \/ Issue(vu)
        \/ Respond(vu)
        \/ Sleep(vu)
        \/ NextIteration(vu)

Spec == Init /\ [][Next]_vars

\* ------------------------------------------- one response on its own
AllSteps ==
    UNION {{[script |-> s, idx |-> i] : i \in 1..Len(Steps(s))} : s \in Scripts}

InitRespond ==
    /\ hStep \in AllSteps
    /\ hRes \in [status : StatusLo..StatusHi, body : Bodies,
                  duration : 0..MaxDuration]
    /\ hOut = << >>
    /\ IdleRun /\ IdlePayload /\ IdleRamp

\* the script handles the response hRes of the request hStep
ApplyHandler ==
    /\ hOut = << >>
    /\ hOut' = << HandleResponse(hStep.script, hStep.idx, hRes) >>
    /\ UNCHANGED <<hStep, hRes, runVars, payloadVars, rampVars>>

NextRespond == ApplyHandler

SpecRespond == InitRespond /\ [][NextRespond]_vars

\* --------------------------- one invocation of the paginated script
\* every value Math.random() can return
AllDraws(s, idx) ==
    IF s = "Paginated" /\ idx = 1 THEN 0..(RandDenom - 1) ELSE {0}

\* the harness starts the paginated script
InitPaginated == Init /\ script = "Paginated"

\* VU 1 sends its next request, whatever Math.random() returns
PaginatedIssue == IssueFrom(1, AllDraws(script, pc[1]))

\* VU 1 gets a response of any duration and handles it; hStep, hRes and hOut
\* keep the request answered, the response and what handling it gave
PaginatedRespond ==
    \E m \in inflight :
      /\ m.vu = 1
      /\ \E r \in [status : RunStatuses, body : RunBodies,
                    duration : 0..MaxDuration] :
            /\ RespondWith(1, m, r)
            /\ hStep' = [script |-> script, idx |-> m.idx]
            /\ hRes' = r
            /\ hOut' = << HandleResponse(script, m.idx, r) >>
      /\ UNCHANGED <<payloadVars, rampVars>>

NextPaginated == PaginatedIssue \/ PaginatedRespond

SpecPaginated == InitPaginated /\ [][NextPaginated]_vars

\* ------------------------------------------ the payload generators
\* iterations near the point where ITER reaches the multiplier of VU
PairSamples ==
    (1..PMaxVU) \X ((0..PMaxIter) \cup {VuMultiplier - 1, VuMultiplier})

InitPayload ==
    /\ gA \in PairSamples
    /\ gB \in PairSamples
    /\ gOut = << >>
    /\ IdleRun /\ IdleHandler /\ IdleRamp

\* the iterations (gA) and (gB) build their payloads
Generate ==
    /\ gOut = << >>
    /\ gOut' = << [orderA |-> GenerateOrderPayload(gA[1], gA[2]),
                   mrpA |-> GenerateMrpReprintPayload(gA[1], gA[2]),
                   orderB |-> GenerateOrderPayload(gB[1], gB[2]),
                   mrpB |-> GenerateMrpReprintPayload(gB[1], gB[2])] >>
    /\ UNCHANGED <<gA, gB, runVars, handlerVars, rampVars>>

NextPayload == Generate

SpecPayload == InitPayload /\ [][NextPayload]_vars

\* ------------------------------------------------- the ramp profile
\* the number of VUs the profile asks for, e seconds into stage i: linear
\* from the previous stage's target (0 before the first) to the stage's own
RampTarget(s, i, e) ==
    LET from == IF i = 1 THEN 0 ELSE Stages(s)[i - 1].target
        to == Stages(s)[i].target
    IN  from + (((to - from) * e) \div Stages(s)[i].duration)

InitRamp ==
    /\ rScript \in {s \in Scripts : Stages(s) # << >>}
    /\ rStage = 1
    /\ rElapsed = 0
    /\ rVUs = 0
    /\ IdleRun /\ IdleHandler /\ IdlePayload

\* one second of the current stage passes
Tick ==
    /\ rElapsed < Stages(rScript)[rStage].duration
    /\ rElapsed' = rElapsed + 1
    /\ rVUs' = RampTarget(rScript, rStage, rElapsed + 1)
    /\ UNCHANGED <<rScript, rStage, runVars, handlerVars, payloadVars>>

\* the stage is over and the next one begins
NextStage ==
    /\ rElapsed = Stages(rScript)[rStage].duration
    /\ rStage < Len(Stages(rScript))
    /\ rStage' = rStage + 1
    /\ rElapsed' = 0
    /\ UNCHANGED <<rScript, rVUs, runVars, handlerVars, payloadVars>>

NextRamp == Tick \/ NextStage

SpecRamp == InitRamp /\ [][NextRamp]_vars

\* ============================================================ claims
AllPass(outcomes) == \A i \in 1..Len(outcomes) : outcomes[i]

Handled == hOut # << >>

HandledStep == Steps(hStep.script)[hStep.idx]

\* the two POST requests of Module 3: generate and mrp-reprint
IsModule3Post == hStep.script = "Module3" /\ HandledStep.method = "POST"

\* C1, as stated: no response with an empty body passes all checks of its
\* request, whichever request of whichever script it answers.
C1_EmptyBodyNeverPasses ==
    (Handled /\ Len(hRes.body) = 0) => ~AllPass(hOut[1].outcomes)

\* C1, amended: a response with an empty body fails a check of its request
\* for every request but the two POST requests of Module 3; the check of
\* those two holds the status predicate alone, so that a response passes it
\* exactly when its status is 200 or 201, empty body or not.
C1_EmptyBodyFailsExceptModule3Post ==
    Handled =>
        /\ (~IsModule3Post /\ Len(hRes.body) = 0) => ~AllPass(hOut[1].outcomes)
        /\ IsModule3Post =>
              /\ Len(hOut[1].outcomes) = 1
              /\ AllPass(hOut[1].outcomes) <=> hRes.status \in {200, 201}

\* a POST outside Module 3 answered 201 with an empty body: the status
\* predicate passes and the check fails
C1_Witness ==
    /\ Handled
    /\ hStep.script = "Module2" /\ HandledStep.method = "POST"
    /\ hRes.status = 201 /\ Len(hRes.body) = 0
    /\ hOut[1].outcomes = <<TRUE, FALSE>>

\* C2: the status predicate (the first predicate of every check) passes iff
\* the status is 200 for a GET, 201 for a POST of Module 1, the paginated
\* script and Module 2, and 200 or 201 for a POST of Module 3; no other
\* predicate looks at the status.
C2_StatusPredicates ==
    Handled =>
        /\ HandledStep.method = "GET" =>
              (hOut[1].outcomes[1] <=> hRes.status = 200)
        /\ (HandledStep.method = "POST" /\ hStep.script # "Module3") =>
              (hOut[1].outcomes[1] <=> hRes.status = 201)
        /\ (HandledStep.method = "POST" /\ hStep.script = "Module3") =>
              (hOut[1].outcomes[1] <=> (hRes.status = 200 \/ hRes.status = 201))
        /\ \A i \in 2..Len(hOut[1].outcomes) :
              hOut[1].outcomes[i] <=> Len(hRes.body) > 0

\* a POST of Module 1 answered 200, and so failing its status predicate
C2_Witness ==
    /\ Handled
    /\ hStep.script = "Module1" /\ HandledStep.method = "POST"
    /\ hRes.status = 200 /\ Len(hRes.body) > 0
    /\ hOut[1].outcomes = <<FALSE, TRUE>>

\* C8: handling a response prints a line iff the response answers Module 3's
\* POST generate and its status is >= 400; it prints one line at most; the
\* outcome of 'Generate: status is 200/201' is decided by the status alone
\* and the script goes on to its next request, line or no line.
C8_LogOnlyGenerateFailure ==
    Handled =>
        /\ hOut[1].log # << >> <=>
              (/\ hStep.script = "Module3"
               /\ HandledStep.path = "/api/smartscancapture/generate"
               /\ hRes.status >= 400)
        /\ Len(hOut[1].log) <= 1
        /\ \A i \in 1..Len(hOut[1].log) : hOut[1].log[i].status = hRes.status
        /\ (hStep.script = "Module3" /\ hStep.idx = 1) =>
              hOut[1].outcomes = << hRes.status = 200 \/ hRes.status = 201 >>
        /\ hOut[1].next = hStep.idx + 1

\* generate answered with exactly 400: the line is printed, the check has
\* failed and the mrp-reprint request is next
C8_Witness ==
    /\ Handled
    /\ hStep = [script |-> "Module3", idx |-> 1]
    /\ hRes.status = 400
    /\ Len(hOut[1].log) = 1
    /\ hOut[1].outcomes = <<FALSE>>
    /\ hOut[1].next = 2

Generated == gOut # << >>

OrderNumberOf(payload) == payload.order[1].ordernumber

\* C3, as stated: two distinct (VU, ITER) pairs never get the same
\* ordernumber.
C3_OrderNumberUnique ==
    (Generated /\ gA # gB) =>
        OrderNumberOf(gOut[1].orderA) # OrderNumberOf(gOut[1].orderB)

\* C4: two distinct (VU, ITER) pairs never get the same serial_number.
C4_SerialNumberUnique ==
    (Generated /\ gA # gB) =>
        gOut[1].mrpA.serial_number # gOut[1].mrpB.serial_number

\* (1, 11) and (11, 1): the digits of VU and ITER run together to 111 in
\* both, and the separator keeps the serial numbers apart
C4_Witness ==
    /\ Generated
    /\ gA = <<1, 11>> /\ gB = <<11, 1>>
    /\ gOut[1].mrpA.serial_number =
          SerialNumberBase \o <<"1", "-", "1", "1">>
    /\ gOut[1].mrpB.serial_number =
          SerialNumberBase \o <<"1", "1", "-", "1">>

\* C10: the ordernumber is made of decimal digits, begins with 123456789,
\* and is the same string in the order and in its item.
C10_OrderNumberShape ==
    Generated =>
        LET o == gOut[1].orderA.order[1]
        IN  /\ \A i \in 1..Len(o.ordernumber) :
                  o.ordernumber[i] \in
                      {"0", "1", "2", "3", "4", "5", "6", "7", "8", "9"}
            /\ Len(o.ordernumber) > 9
            /\ SubSeq(o.ordernumber, 1, 9) =
                  <<"1", "2", "3", "4", "5", "6", "7", "8", "9">>
            /\ Len(o.items) = 1
            /\ o.items[1].ordernumber = o.ordernumber

\* VU 2 in its iteration 11: 12345678920011 in the order and in its item
C10_Witness ==
    /\ Generated
    /\ gA = <<2, 11>>
    /\ gOut[1].orderA.order[1].ordernumber =
          <<"1", "2", "3", "4", "5", "6", "7", "8", "9", "2", "0", "0", "1", "1">>
    /\ gOut[1].orderA.order[1].items[1].ordernumber =
          <<"1", "2", "3", "4", "5", "6", "7", "8", "9", "2", "0", "0", "1", "1">>

\* C5, as stated: the profiles of Modules 1 and 2 reach 50 VUs at the end of
\* the first stage and hold 50 VUs through the second.
C5_RampTo50 ==
    (rScript \in {"Module1", "Module2"} /\ rStage = 2) => rVUs = 50

\* what an invocation has done, without the requests' contents
Ops(t) == [i \in 1..Len(t) |-> <<t[i].op, t[i].method, t[i].path>>]

IsPrefix(a, b) == Len(a) <= Len(b) /\ a = SubSeq(b, 1, Len(a))

IsRequestEvent(e) == e.op = "request"

IsCheckEvent(e) == e.op = "check"

RequestEvents(vu) == SelectSeq(trace[vu], IsRequestEvent)

CheckEvents(vu) == SelectSeq(trace[vu], IsCheckEvent)

Module3Order ==
    << <<"request", "POST", "/api/smartscancapture/generate">>,
       <<"check", "POST", "/api/smartscancapture/generate">>,
       <<"request", "POST", "/api/smartscancapture/mrp-reprint">>,
       <<"check", "POST", "/api/smartscancapture/mrp-reprint">>,
       <<"request", "GET", "/api/smartscancapture/get-po-headers-data">>,
       <<"check", "GET", "/api/smartscancapture/get-po-headers-data">>,
       <<"request", "GET", "/api/smartscancapture/get-po-details-data">>,
       <<"check", "GET", "/api/smartscancapture/get-po-details-data">>,
       <<"sleep", "", "">> >>

Module1Order ==
    << <<"request", "GET", "/api/serialcode/get-serial-code-details-data">>,
       <<"check", "GET", "/api/serialcode/get-serial-code-details-data">>,
       <<"request", "POST", "/api/serialcode/generate">>,
       <<"check", "POST", "/api/serialcode/generate">>,
       <<"request", "GET", "/api/serialcode/get-serial-code-headers-data">>,
       <<"check", "GET", "/api/serialcode/get-serial-code-headers-data">>,
       <<"request", "GET", "/api/master/get-plants-data">>,
       <<"check", "GET", "/api/master/get-plants-data">>,
       <<"request", "GET", "/api/master/get-product-categories-data">>,
       <<"check", "GET", "/api/master/get-product-categories-data">>,
       <<"request", "GET", "/api/master/get-procurement-types-data">>,
       <<"check", "GET", "/api/master/get-procurement-types-data">>,
       <<"sleep", "", "">> >>

\* C6: an invocation of Module 3 or Module 1 does its requests, checks and
\* sleep in the one fixed order, a request leaving only after the check of
\* the one before; a VU never has two requests in flight, and while one is
\* in flight it is the last thing the invocation did.
C6_SequentialFixedOrder ==
    \A vu \in VUs :
        /\ Cardinality({m \in inflight : m.vu = vu}) <= 1
        /\ script = "Module3" => IsPrefix(Ops(trace[vu]), Module3Order)
        /\ script = "Module1" => IsPrefix(Ops(trace[vu]), Module1Order)
        /\ \A m \in inflight :
              m.vu = vu =>
                  /\ trace[vu] # << >>
                  /\ trace[vu][Len(trace[vu])].op = "request"
                  /\ trace[vu][Len(trace[vu])].req = << m.req >>

\* VU 1 has gone through a whole invocation of Module 3, sleep included,
\* while VU 2 waits for the response to its mrp-reprint request
C6_Witness ==
    /\ script = "Module3"
    /\ Ops(trace[1]) = Module3Order
    /\ \E m \in inflight : m.vu = 2 /\ m.idx = 2

\* the requests one invocation makes, and the predicates it evaluates
RequestsPerIteration ==
    CASE script = "Module3" -> 4
      [] script = "Module1" -> 6
      [] script = "Paginated" -> 3
      [] script = "Module2" -> 3

PredicatesPerIteration ==
    CASE script = "Module3" -> 6
      [] script = "Module1" -> 12
      [] script = "Paginated" -> 6
      [] script = "Module2" -> 6

\* C7: whatever the responses, an invocation never sends a request twice and
\* never checks a response twice; when it returns it has sent each of its
\* requests once (4, 6, 3 and 3 of them), in program order, has made one
\* check() call per request and has recorded one outcome per predicate.
C7_EachRequestExactlyOnce ==
    \A vu \in VUs :
        LET reqs == RequestEvents(vu)
            chks == CheckEvents(vu)
        IN  /\ \A i, j \in 1..Len(reqs) :
                  i # j => reqs[i].path # reqs[j].path
            /\ \A i, j \in 1..Len(chks) :
                  i # j => chks[i].path # chks[j].path
            /\ Len(chks) <= Len(reqs)
            /\ Len(reqs) <= RequestsPerIteration
            /\ recorded[vu] <= PredicatesPerIteration
            /\ pc[vu] = EndPc(script) =>
                  /\ Len(reqs) = RequestsPerIteration
                  /\ Len(chks) = RequestsPerIteration
                  /\ \A i \in 1..Len(reqs) :
                        /\ reqs[i].path = Steps(script)[i].path
                        /\ chks[i].path = Steps(script)[i].path
                  /\ recorded[vu] = PredicatesPerIteration

\* an invocation of Module 3 whose generate request was answered 400 (the
\* line was printed, the check failed) has returned after its 4 requests
C7_Witness ==
    /\ script = "Module3"
    /\ pc[1] = EndPc(script)
    /\ console[1] # << >>
    /\ Len(RequestEvents(1)) = 4
    /\ recorded[1] = 6

\* C9: every request a VU has sent in its current invocation, and every
\* request in flight, is the request its script builds from the VU's own
\* index and iteration counter (and the page drawn); in Module 3 the
\* ordernumber and the serial_number sent carry exactly those two numbers.
C9_RequestsFromOwnVuAndIter ==
    /\ \A vu \in VUs :
          \A i \in 1..Len(trace[vu]) :
              trace[vu][i].op = "request" =>
                  LET req == trace[vu][i].req[1]
                  IN  /\ \E idx \in 1..Len(Steps(script)) :
                            \E k \in Draws(script, idx) :
                                req = Request(script, idx,
                                              BuildLocals(script, vu, iter[vu]), k)
                      /\ (script = "Module3" /\ i = 1) =>
                            /\ req.body[1].order[1].ordernumber =
                                  OrderNumberBase \o ToDecimal(vu * 10000 + iter[vu])
                            /\ req.body[1].order[1].items[1].ordernumber =
                                  OrderNumberBase \o ToDecimal(vu * 10000 + iter[vu])
                      /\ (script = "Module3" /\ i = 3) =>
                            req.body[1].serial_number =
                                SerialNumberBase \o ToDecimal(vu) \o <<"-">>
                                    \o ToDecimal(iter[vu])
    /\ \A m \in inflight :
          \E k \in Draws(script, m.idx) :
              m.req = Request(script, m.idx,
                              BuildLocals(script, m.vu, m.iter), k)

\* VU 1 is in its second invocation of Module 3, where its generate request
\* was answered 400 and its mrp-reprint request has left, while VU 2 is
\* still in its first invocation with a request in flight
C9_Witness ==
    /\ script = "Module3"
    /\ iter[1] = 1 /\ iter[2] = 0
    /\ console[1] # << >>
    /\ Len(trace[1]) >= 3
    /\ \E m \in inflight : m.vu = 2

\* the invocation of VU 1 has checked the response of its request to path
Checked(path) ==
    \E i \in 1..Len(trace[1]) :
        trace[1][i].op = "check" /\ trace[1][i].path = path

SamplesExpected(path) == IF Checked(path) THEN 1 ELSE 0

PageQueryInRange(req) ==
    req.path = "/api/serialcode/get-serial-codes-data" =>
        /\ Len(req.query) = 1
        /\ req.query[1].page \in 1..100
        /\ req.query[1].pageSize = 50

\* C11: in an invocation of the paginated script, whatever Math.random()
\* returns, the request to get-serial-codes-data carries a page in 1..100
\* and pageSize 50; each of the three Trend metrics holds one sample once the
\* response of its request has been handled and none before, three in all
\* when the invocation returns; and the sample is that response's duration,
\* whatever the outcomes of its check.
C11_PageRangeAndTrendSamples ==
    /\ \A i \in 1..Len(trace[1]) :
          trace[1][i].op = "request" => PageQueryInRange(trace[1][i].req[1])
    /\ \A m \in inflight : PageQueryInRange(m.req)
    /\ Len(trend["get_paginated_data_duration"]) =
          SamplesExpected("/api/serialcode/get-serial-codes-data")
    /\ Len(trend["get_serial_code_headers_duration"]) =
          SamplesExpected("/api/serialcode/get-serial-code-headers-data")
    /\ Len(trend["post_generate_duration"]) =
          SamplesExpected("/api/serialcode/generate")
    /\ pc[1] = EndPc(script) => \A m \in TrendNames : Len(trend[m]) = 1
    /\ hOut # << >> =>
          /\ hStep.idx = 1 => trend["get_paginated_data_duration"] = << hRes.duration >>
          /\ hStep.idx = 2 => trend["get_serial_code_headers_duration"] = << hRes.duration >>
          /\ hStep.idx = 3 => trend["post_generate_duration"] = << hRes.duration >>

\* the greatest draw gave page 100; the invocation has returned, its last
\* response (to POST generate) took 1 ms and failed both predicates, and its
\* duration is the one sample of post_generate_duration
C11_Witness ==
    /\ script = "Paginated"
    /\ pc[1] = EndPc(script)
    /\ trace[1][1].req[1].query = << [page |-> 100, pageSize |-> 50] >>
    /\ hStep.idx = 3
    /\ hRes = [status |-> 400, body |-> << >>, duration |-> 1]
    /\ hOut[1].outcomes = <<FALSE, FALSE>>
    /\ trend["post_generate_duration"] = <<1>>
    /\ Len(trend["get_paginated_data_duration"]) = 1
    /\ Len(trend["get_serial_code_headers_duration"]) = 1

====
